---- MODULE Spec2Model ----
(***************************************************************************)
(* Order lifecycle and inventory workflow of the admin dashboard:          *)
(*   - CreateOrder page  (src/src/pages/AddProduct.jsx, lines 931-1085):   *)
(*     product search, cart, handleCreateOrder                             *)
(*   - Orders page       (src/src/pages/Orders.jsx):                       *)
(*     fetchOrders, renderActionButtons, initiateStatusUpdate,             *)
(*     confirmStatusUpdate, selection and generateManifest                 *)
(*   - Sales page        (src/src/pages/EditProduct.jsx, lines 617-717):   *)
(*     BulkSalesPanel: handleCategorySale, stopCategorySale,               *)
(*     handleClearAll                                                      *)
(*   - logger            (src/unnamed/part_002): logAction                 *)
(* The store (orders, order_items, product_variants.stock_quantity) is     *)
(* shared by the admin sessions; every `await supabase...` of a handler is *)
(* one step, so that other sessions interleave between the store calls of  *)
(* a handler exactly where the code yields.                                *)
(*                                                                         *)
(* Scope of the behaviours: the operator leaves the cart alone while an    *)
(* order is being submitted (loading), and reloads the Orders page only    *)
(* while its modal is closed.  A store call that fails returns an error    *)
(* and changes nothing in the store.  Cart prices are whole rupees, the    *)
(* prices of the catalogue of the Sales page are in paise.                 *)
(***************************************************************************)
EXTENDS Integers, Sequences, FiniteSets, TLC

\* ---------------------------------------------------------------- bounds
MaxStock == 2      \* initial stock_quantity of variant V ranges over 1..MaxStock
MaxOrders == 2     \* rows of the orders table
MaxFaults == 1     \* store calls that may fail in one behaviour
MaxFetches == 2    \* fetchOrders calls in one behaviour
MaxUpdates == 3    \* confirmStatusUpdate calls in one behaviour
MaxRejects == 1    \* submissions a handler's validation turns down in one behaviour
MaxPrints == 1     \* generateManifest calls in one behaviour
MaxRows == 3       \* ids the trending_products table gives out in one behaviour
MaxMoves == 2      \* moveItem calls in one behaviour
MaxDiscounts == 3  \* discount handlers started in one behaviour

Variants == {"V", "W"}
Sessions == {"A", "B"}

\* products.price of the product each variant belongs to (not on sale)
ProductPrice == [v \in Variants |-> IF v = "V" THEN 1 ELSE 2]

\* what the operator may type into the note of a status change
NoteTexts == {"", " ", "memo"}

Statuses == {"pending", "confirmed", "processing", "shipped", "delivered", "cancelled"}

\* customer.name and customer.phone as the operator may have left them
Customers == [name : {"", "Asha"}, phone : {"", "98"}]

\* Transition table of the order state machine (spec 4.2), used by the
\* properties only: confirmStatusUpdate never consults it.
TransitionTable ==
    { <<"pending", "confirmed">>, <<"pending", "cancelled">>,
      <<"confirmed", "processing">>, <<"confirmed", "cancelled">>,
      <<"processing", "shipped">>, <<"processing", "cancelled">>,
      <<"shipped", "delivered">>, <<"shipped", "cancelled">> }

VARIABLES
    stock,             \* product_variants.stock_quantity, by variant id
    orders,            \* orders table: sequence of rows, id = index
    order_items,       \* order_items rows, grouped by order id
    faults,            \* failed store calls so far
    fetches,           \* fetchOrders calls so far
    updates,           \* confirmStatusUpdate calls so far
    cart,              \* CreateOrder: cart state, per session
    loading,           \* CreateOrder: loading state
    create,            \* CreateOrder: position of the running handleCreateOrder
    view,              \* Orders: orders state (local copy), per session
    actionModal,       \* Orders: actionModal state
    processingAction,  \* Orders: processingAction state
    upd,               \* Orders: position of the running confirmStatusUpdate
    selectedOrderIds,  \* Orders: selectedOrderIds state (the ids, as a set)
    statusFilter,      \* Orders: statusFilter state
    manifest,          \* Orders: the manifest documents printed, per session
    products,          \* products table: price, sale_price, is_on_sale, is_active, category_id
    sale,              \* BulkSalesPanel: position of the running discount handler
    saleLoading,       \* BulkSalesPanel: loading state
    activeSales,       \* BulkSalesPanel: activeSales state (category ids)
    discounts,         \* discount handlers started so far
    rejections,        \* submissions turned down by a handler's validation so far
    auditLog,          \* rows stored by log_admin_action so far
    stock0,            \* history: stock at Init
    succeeded,         \* history: ids of orders whose creation toasted success
    restoreWrites,     \* history: applied restoring stock updates, per order and variant
    trending_products, \* trending_products table: rows id, product_id, position
    trendingSeq,       \* the last id the trending_products table gave out
    trending,          \* TrendingManager: trending state (local list), per session
    trend,             \* TrendingManager: store calls in flight, per session
    moves,             \* moveItem calls so far
    variant_sku,       \* product_variants.sku, by product and colour-size key
    launched,          \* products inserted by AddProduct
    save,              \* AddProduct / EditProduct: position of the running save
    arch               \* Settings Products: position of the running handleArchive

vars == << stock, orders, order_items, faults, fetches, updates, cart, loading,
           create, view, actionModal, processingAction, upd, selectedOrderIds,
           statusFilter, manifest, products, sale, saleLoading, activeSales,
           discounts, rejections, auditLog, stock0, succeeded, restoreWrites,
           trending_products, trendingSeq, trending, trend, moves,
           variant_sku, launched, save, arch >>

storeVars == << stock, orders, order_items >>
createVars == << cart, loading, create >>
ordersVars == << view, actionModal, processingAction, upd >>
batchVars == << selectedOrderIds, statusFilter, manifest >>
salesVars == << products, sale, saleLoading, activeSales, discounts >>
histVars == << stock0, succeeded, restoreWrites >>
trendingVars == << trending_products, trendingSeq, trending, trend, moves >>
skuVars == << variant_sku, launched, save >>
catalogVars == << trendingVars, skuVars, arch >>
deskVars == << fetches, updates, createVars, ordersVars, batchVars, rejections, histVars >>

\* ------------------------------------------------------------- helpers
\* cartTotal: cart.reduce((sum, item) => sum + (item.price * item.qty), 0)
RECURSIVE cartTotal(_)
cartTotal(c) ==
    IF c = <<>> THEN 0 ELSE Head(c).price * Head(c).qty + cartTotal(Tail(c))

\* sum of quantity * price_at_purchase over line items
RECURSIVE ItemsTotal(_)
ItemsTotal(items) ==
    IF items = <<>> THEN 0
    ELSE Head(items).quantity * Head(items).price_at_purchase + ItemsTotal(Tail(items))

\* quantity of variant v among the line items
RECURSIVE QtyOf(_, _)
QtyOf(items, v) ==
    IF items = <<>> THEN 0
    ELSE (IF Head(items).variant_id = v THEN Head(items).quantity ELSE 0)
         + QtyOf(Tail(items), v)

\* orderItems = cart.map(item => ({order_id, variant_id, quantity, price_at_purchase}))
orderItems(c) ==
    [i \in 1..Len(c) |-> [variant_id |-> c[i].variant_id,
                          quantity |-> c[i].qty,
                          price_at_purchase |-> c[i].price]]

\* a storefront order that exists before the admin sessions start
StorefrontOrder == [status |-> "pending", total_amount |-> ProductPrice["V"],
                    notes |-> <<>>]
StorefrontItems == << [variant_id |-> "V", quantity |-> 1,
                       price_at_purchase |-> ProductPrice["V"]] >>

NoOrder == [id |-> 0, status |-> "none", items |-> <<>>, total_amount |-> 0,
            notes |-> <<>>]
\* short, deducted: history of the running handleCreateOrder (see handleCreateOrder, DeductStock)
NoCustomer == [name |-> "", phone |-> ""]
IdleCreate == [pc |-> "idle", order |-> 0, i |-> 0, short |-> FALSE, deducted |-> 0,
               customer |-> NoCustomer]
IdleUpd == [pc |-> "idle", i |-> 0, newStock |-> 0]
ClosedModal == [open |-> FALSE, order |-> NoOrder, newStatus |-> "", note |-> ""]

NoRestores == [v \in Variants |-> 0]

\* sale_price: null
null == -1

\* the catalogue: two products of one category, one of them archived and
\* still carrying an old sale price, and one product of another category;
\* prices in paise (numeric(10,2) scaled by 100)
Products == {"P1", "P2", "P3"}
Categories == {"kurta", "saree"}
InitProducts ==
    [p \in Products |->
        IF p = "P1" THEN [price |-> 100000, sale_price |-> null, is_on_sale |-> FALSE,
                          is_active |-> TRUE, category_id |-> "kurta"]
        ELSE IF p = "P2" THEN [price |-> 99999, sale_price |-> 50000, is_on_sale |-> TRUE,
                               is_active |-> FALSE, category_id |-> "kurta"]
        ELSE [price |-> 12345, sale_price |-> null, is_on_sale |-> FALSE,
              is_active |-> TRUE, category_id |-> "saree"]]

IdleSale == [pc |-> "idle", op |-> "", cat |-> "", percent |-> 0]

\* --------------------------------------------------------------- Init
\* the state of the pages after mount, the same in every specification
\* a row of trending_products
TrendingRow(id, p, pos) == [id |-> id, product_id |-> p, position |-> pos]

\* .order('position', { ascending: true }); rows of one position come by id
RECURSIVE byPosition(_)
byPosition(rows) ==
    IF rows = {} THEN <<>>
    ELSE LET first == CHOOSE r \in rows : \A q \in rows :
                        \/ r.position < q.position
                        \/ (r.position = q.position /\ r.id <= q.id)
         IN  <<first>> \o byPosition(rows \ {first})

\* no update in flight, no fetchTrending due
IdleTrend == [pending |-> <<>>, failed |-> FALSE, refetch |-> FALSE]

\* the two rows the trending list starts with
InitTrending == { TrendingRow(1, "P1", 1), TrendingRow(2, "P2", 2) }

\* the product the AddProduct form can launch
NewProducts == {"N1"}
SkuProducts == {"P1"} \cup NewProducts
\* colour-size combinations of a product form
VariantKeys == {"red-M", "red-L"}
\* what the SKU field of a form can hold
Skus == {"", "a", " a"}
Forms == [VariantKeys -> Skus]
NoForm == [k \in VariantKeys |-> ""]
IdleSave == [pc |-> "idle", product |-> "", form |-> NoForm, toast |-> "none"]

\* product_variants.product_id: both variants belong to P1
variantProduct == [v \in Variants |-> "P1"]
IdleArch == [pc |-> "idle", id |-> "", inspects |-> FALSE, toast |-> "none"]

InitSessions ==
    /\ faults = 0
    /\ fetches = 0
    /\ updates = 0
    /\ cart = [s \in Sessions |-> <<>>]
    /\ loading = [s \in Sessions |-> FALSE]
    /\ create = [s \in Sessions |-> IdleCreate]
    /\ view = [s \in Sessions |-> <<>>]
    /\ actionModal = [s \in Sessions |-> ClosedModal]
    /\ processingAction = [s \in Sessions |-> FALSE]
    /\ upd = [s \in Sessions |-> IdleUpd]
    /\ selectedOrderIds = [s \in Sessions |-> {}]
    /\ statusFilter = [s \in Sessions |-> "all"]
    /\ manifest = [s \in Sessions |-> <<>>]
    /\ products = InitProducts
    /\ sale = [s \in Sessions |-> IdleSale]
    /\ saleLoading = [s \in Sessions |-> FALSE]
    /\ activeSales = [s \in Sessions |-> {}]
    /\ discounts = 0
    /\ rejections = 0
    /\ auditLog = 0
    /\ succeeded = {}
    /\ trending_products = InitTrending
    /\ trendingSeq = Cardinality(InitTrending)
    /\ trending = [s \in Sessions |-> byPosition(InitTrending)]
    /\ trend = [s \in Sessions |-> IdleTrend]
    /\ moves = 0
    /\ variant_sku = [p \in SkuProducts |->
            IF p = "P1" THEN [k \in VariantKeys |-> IF k = "red-M" THEN "a" ELSE ""]
            ELSE NoForm]
    /\ launched = {}
    /\ save = [s \in Sessions |-> IdleSave]
    /\ arch = [s \in Sessions |-> IdleArch]

\* the store holds n storefront orders
InitStore(n) ==
    /\ stock \in { [v \in Variants |-> IF v = "V" THEN k ELSE 1] : k \in 1..MaxStock }
    /\ stock0 = stock
    /\ orders = [i \in 1..n |-> StorefrontOrder]
    /\ order_items = [i \in 1..n |-> StorefrontItems]
    /\ restoreWrites = [i \in 1..n |-> NoRestores]

\* one storefront order, one unit of each variant on the shelf
Init == InitSessions /\ InitStore(1) /\ stock["V"] = 1

\* A store call either succeeds or (within the fault budget) fails.
MayFail == faults < MaxFaults

\* a logger that lets the failure of its rpc escape to the caller
logActionUncaught(rpcOk) ==
    [returned |-> rpcOk, rows |-> IF rpcOk THEN 1 ELSE 0]

\* logAction: try { rpc('log_admin_action') ... } catch { console.error }.
\* rpcOk: the rpc stored its row; otherwise it returned an error or threw.
\* returned: the call comes back to its caller without throwing.
logAction(rpcOk) ==
    [returned |-> TRUE, rows |-> IF rpcOk THEN 1 ELSE 0]

\* ------------------------------------------------- CreateOrder page
CartHas(c, v) == \E i \in 1..Len(c) : c[i].variant_id = v

\* the updater passed to setCart in addToCart
addToCartUpdater(prev, variant) ==
    IF CartHas(prev, variant.id)
    THEN LET existing == prev[CHOOSE i \in 1..Len(prev) : prev[i].variant_id = variant.id]
         IN IF existing.qty + 1 > variant.stock_quantity
            THEN prev
            ELSE [i \in 1..Len(prev) |->
                    IF prev[i].variant_id = variant.id
                    THEN [prev[i] EXCEPT !.qty = @ + 1]
                    ELSE prev[i]]
    ELSE Append(prev, [variant_id |-> variant.id,
                       price |-> ProductPrice[variant.id],
                       qty |-> 1,
                       max_stock |-> variant.stock_quantity])

\* The operator searches and clicks a variant of the result list; the row
\* clicked carries the stock_quantity the search returned, here the store's
\* value at the click (the search effect re-runs on every keystroke).
addToCart(s) ==
    /\ UNCHANGED catalogVars
    /\ UNCHANGED << batchVars, salesVars, rejections, auditLog >>
    /\ ~loading[s]
    /\ \E v \in Variants :
        LET variant == [id |-> v, stock_quantity |-> stock[v]]
        IN IF variant.stock_quantity <= 0
           THEN UNCHANGED cart                     \* toast "Out of stock"
           ELSE cart' = [cart EXCEPT ![s] = addToCartUpdater(@, variant)]
    /\ UNCHANGED << storeVars, faults, fetches, updates, loading, create,
                    ordersVars, histVars >>

removeFromCart(s) ==
    /\ UNCHANGED catalogVars
    /\ UNCHANGED << batchVars, salesVars, rejections, auditLog >>
    /\ ~loading[s]
    /\ \E v \in Variants :
        /\ CartHas(cart[s], v)
        /\ cart' = [cart EXCEPT ![s] = SelectSeq(@, LAMBDA item : item.variant_id # v)]
    /\ UNCHANGED << storeVars, faults, fetches, updates, loading, create,
                    ordersVars, histVars >>

updateQtyUpdater(prev, variantId, delta) ==
    [i \in 1..Len(prev) |->
        IF prev[i].variant_id = variantId
        THEN LET newQty == prev[i].qty + delta
             IN IF newQty > prev[i].max_stock THEN prev[i]
                ELSE IF newQty < 1 THEN prev[i]
                ELSE [prev[i] EXCEPT !.qty = newQty]
        ELSE prev[i]]

updateQty(s) ==
    /\ UNCHANGED catalogVars
    /\ UNCHANGED << batchVars, salesVars, rejections, auditLog >>
    /\ ~loading[s]
    /\ \E v \in Variants, delta \in {-1, 1} :
        /\ CartHas(cart[s], v)
        /\ cart' = [cart EXCEPT ![s] = updateQtyUpdater(@, v, delta)]
    /\ UNCHANGED << storeVars, faults, fetches, updates, loading, create,
                    ordersVars, histVars >>

\* history: some cart entry asks for more than the store holds right now
ShortOfStock(c) == \E i \in 1..Len(c) : c[i].qty > stock[c[i].variant_id]

\* order rows about to be inserted by a running handler (for the MaxOrders bound)
PendingInserts == Cardinality({ s \in Sessions : create[s].pc = "insertOrder" })

\* the validation of handleCreateOrder with its test of the customer left out
InvalidOrderCartOnly(c, customer) == Len(c) = 0

\* if (cart.length === 0) return ...; if (!customer.name || !customer.phone) return ...
InvalidOrder(c, customer) ==
    Len(c) = 0 \/ customer.name = "" \/ customer.phone = ""

\* handleCreateOrder up to its first await (the button is disabled while
\* loading); customer is the customer state of the form at the click
handleCreateOrder(s) ==
    /\ UNCHANGED catalogVars
    /\ UNCHANGED << batchVars, salesVars, auditLog >>
    /\ ~loading[s]
    /\ \E customer \in Customers :
        IF InvalidOrder(cart[s], customer)
        THEN /\ rejections < MaxRejects          \* toast.error, return
             /\ rejections' = rejections + 1
             /\ UNCHANGED << loading, create >>
        ELSE /\ Len(orders) + PendingInserts < MaxOrders
             /\ loading' = [loading EXCEPT ![s] = TRUE]
             /\ create' = [create EXCEPT ![s] =
                    [pc |-> "insertOrder", order |-> 0, i |-> 0,
                     short |-> ShortOfStock(cart[s]), deducted |-> 0,
                     customer |-> customer]]
             /\ UNCHANGED rejections
    /\ UNCHANGED << storeVars, faults, fetches, updates, cart, ordersVars, histVars >>

\* a catch without the finally: the busy flag stays up
CreateFailedStillLoading(s) ==
    /\ loading' = loading
    /\ create' = [create EXCEPT ![s] = IdleCreate]

\* catch + finally of handleCreateOrder
CreateFailed(s) ==
    /\ loading' = [loading EXCEPT ![s] = FALSE]
    /\ create' = [create EXCEPT ![s] = IdleCreate]

\* an order row that starts like a storefront order
newOrderPending(c) ==
    [status |-> "pending", total_amount |-> cartTotal(c), notes |-> <<>>]

\* the row handleCreateOrder inserts: status: 'confirmed', total_amount: cartTotal,
\* notes: customer.notes (left empty)
newOrder(c) ==
    [status |-> "confirmed", total_amount |-> cartTotal(c), notes |-> <<>>]

\* A. supabase.from('orders').insert({... status: 'confirmed', total_amount: cartTotal})
InsertOrder(s) ==
    /\ UNCHANGED catalogVars
    /\ UNCHANGED << batchVars, salesVars, rejections, auditLog >>
    /\ create[s].pc = "insertOrder"
    /\ \/ /\ orders' = Append(orders, newOrder(cart[s]))
          /\ order_items' = Append(order_items, <<>>)
          /\ restoreWrites' = Append(restoreWrites, NoRestores)
          /\ create' = [create EXCEPT ![s].pc = "insertItems",
                                      ![s].order = Len(orders) + 1]
          /\ UNCHANGED << faults, loading >>
       \/ /\ MayFail
          /\ faults' = faults + 1
          /\ CreateFailed(s)
          /\ UNCHANGED << orders, order_items, restoreWrites >>
    /\ UNCHANGED << stock, fetches, updates, cart, ordersVars, stock0, succeeded >>

\* B. supabase.from('order_items').insert(orderItems)
InsertItems(s) ==
    /\ UNCHANGED catalogVars
    /\ UNCHANGED << batchVars, salesVars, rejections, auditLog >>
    /\ create[s].pc = "insertItems"
    /\ \/ /\ order_items' = [order_items EXCEPT ![create[s].order] = orderItems(cart[s])]
          /\ create' = [create EXCEPT ![s].pc = "deduct", ![s].i = 1]
          /\ UNCHANGED << faults, loading >>
       \/ /\ MayFail
          /\ faults' = faults + 1
          /\ CreateFailed(s)
          /\ UNCHANGED order_items
    /\ UNCHANGED << stock, orders, fetches, updates, cart, ordersVars, histVars >>

\* C. one iteration: update({stock_quantity: item.max_stock - item.qty}).eq('id', ...)
\*    (the result of the update is not inspected)
DeductStock(s) ==
    /\ UNCHANGED catalogVars
    /\ UNCHANGED << batchVars, salesVars, rejections, auditLog >>
    /\ create[s].pc = "deduct"
    /\ LET item == cart[s][create[s].i]
       IN \/ /\ stock' = [stock EXCEPT ![item.variant_id] = item.max_stock - item.qty]
             /\ create' = [create EXCEPT
                    ![s].pc = IF create[s].i = Len(cart[s]) THEN "log" ELSE "deduct",
                    ![s].i = @ + 1,
                    ![s].deducted = @ + 1]
             /\ UNCHANGED faults
          \/ /\ MayFail
             /\ faults' = faults + 1
             /\ create' = [create EXCEPT
                    ![s].pc = IF create[s].i = Len(cart[s]) THEN "log" ELSE "deduct",
                    ![s].i = @ + 1]
             /\ UNCHANGED stock
    /\ UNCHANGED << orders, order_items, fetches, updates, cart, loading,
                    ordersVars, histVars >>

\* await logAction(...); toast.success; setCart([]); setCustomer({...}); finally
\* (had logAction thrown, the catch block would have run instead)
FinishCreate(s) ==
    /\ UNCHANGED catalogVars
    /\ UNCHANGED << batchVars, salesVars, rejections >>
    /\ create[s].pc = "log"
    /\ \E rpcOk \in BOOLEAN :
        /\ rpcOk \/ MayFail
        /\ faults' = IF rpcOk THEN faults ELSE faults + 1
        /\ LET r == logAction(rpcOk)
           IN /\ auditLog' = auditLog + r.rows
              /\ IF r.returned
                 THEN /\ cart' = [cart EXCEPT ![s] = <<>>]
                      /\ loading' = [loading EXCEPT ![s] = FALSE]
                      /\ succeeded' = succeeded \cup {create[s].order}
                      /\ create' = [create EXCEPT ![s] = IdleCreate]
                 ELSE /\ CreateFailed(s)
                      /\ UNCHANGED << cart, succeeded >>
    /\ UNCHANGED << storeVars, fetches, updates, ordersVars, stock0, restoreWrites >>

\* --------------------------------------------------------- Orders page
\* fetchOrders (run on mount, with the state of a fresh mount): orders joined
\* with their items, as one select
fetchOrders(s) ==
    /\ UNCHANGED catalogVars
    /\ UNCHANGED << manifest, salesVars, rejections, auditLog >>
    /\ fetches < MaxFetches
    /\ ~actionModal[s].open
    /\ fetches' = fetches + 1
    /\ selectedOrderIds' = [selectedOrderIds EXCEPT ![s] = {}]
    /\ statusFilter' = [statusFilter EXCEPT ![s] = "all"]
    /\ view' = [view EXCEPT ![s] =
            [o \in 1..Len(orders) |-> [id |-> o, status |-> orders[o].status,
                                       items |-> order_items[o],
                                       total_amount |-> orders[o].total_amount,
                                       notes |-> orders[o].notes]]]
    /\ UNCHANGED << storeVars, faults, updates, createVars, actionModal,
                    processingAction, upd, histVars >>

\* a row of buttons that offers every other status
renderEveryButton(status) == Statuses \ {status}

\* the target statuses renderActionButtons offers for an order
renderActionButtons(status) ==
    IF status = "cancelled" \/ status = "delivered" THEN {}
    ELSE (IF status = "pending" THEN {"confirmed"} ELSE {})
         \cup (IF status = "confirmed" THEN {"processing"} ELSE {})
         \cup (IF status = "processing" THEN {"shipped"} ELSE {})
         \cup (IF status = "shipped" THEN {"delivered"} ELSE {})
         \cup {"cancelled"}

\* a click on an action button (the open modal covers the buttons)
initiateStatusUpdate(s) ==
    /\ UNCHANGED catalogVars
    /\ UNCHANGED << batchVars, salesVars, rejections, auditLog >>
    /\ ~actionModal[s].open
    /\ \E o \in 1..Len(view[s]) :
       \E newStatus \in renderActionButtons(view[s][o].status) :
          actionModal' = [actionModal EXCEPT ![s] =
                [open |-> TRUE, order |-> view[s][o], newStatus |-> newStatus,
                 note |-> ""]]
    /\ UNCHANGED << storeVars, faults, fetches, updates, createVars, view,
                    processingAction, upd, histVars >>

\* the textarea of the modal: setActionModal({...actionModal, note: e.target.value})
setNote(s) ==
    /\ UNCHANGED catalogVars
    /\ UNCHANGED << batchVars, salesVars, rejections, auditLog >>
    /\ actionModal[s].open
    /\ ~processingAction[s]
    /\ \E text \in NoteTexts :
          actionModal' = [actionModal EXCEPT ![s].note = text]
    /\ UNCHANGED << storeVars, faults, fetches, updates, createVars, view,
                    processingAction, upd, histVars >>

\* where confirmStatusUpdate continues when its loop stands at index i
NextStep(order, newStatus, i) ==
    IF newStatus = "cancelled" /\ order.status # "cancelled" /\ i <= Len(order.items)
    THEN "read" ELSE "status"

\* confirmStatusUpdate up to its first await (button disabled while processingAction)
confirmStatusUpdate(s) ==
    /\ UNCHANGED catalogVars
    /\ UNCHANGED << batchVars, salesVars, rejections, auditLog >>
    /\ actionModal[s].open
    /\ ~processingAction[s]
    /\ updates < MaxUpdates
    /\ processingAction' = [processingAction EXCEPT ![s] = TRUE]
    /\ upd' = [upd EXCEPT ![s] =
            [pc |-> NextStep(actionModal[s].order, actionModal[s].newStatus, 1),
             i |-> 1, newStock |-> 0]]
    /\ updates' = updates + 1
    /\ UNCHANGED << storeVars, faults, fetches, createVars, view,
                    actionModal, histVars >>

\* select('stock_quantity').eq('id', item.variant.id).single()
ReadStock(s) ==
    /\ UNCHANGED catalogVars
    /\ UNCHANGED << batchVars, salesVars, rejections, auditLog >>
    /\ upd[s].pc = "read"
    /\ LET order == actionModal[s].order
           item == order.items[upd[s].i]
       IN \/ /\ upd' = [upd EXCEPT ![s].pc = "write",
                                   ![s].newStock = stock[item.variant_id] + item.quantity]
             /\ UNCHANGED faults
          \/ /\ MayFail                       \* variantData is null: item skipped
             /\ faults' = faults + 1
             /\ upd' = [upd EXCEPT
                    ![s].pc = NextStep(order, actionModal[s].newStatus, upd[s].i + 1),
                    ![s].i = @ + 1]
    /\ UNCHANGED << storeVars, fetches, updates, createVars, view, actionModal,
                    processingAction, histVars >>

\* update({ stock_quantity: newStock }).eq('id', item.variant.id), result not inspected
WriteStock(s) ==
    /\ UNCHANGED catalogVars
    /\ UNCHANGED << batchVars, salesVars, rejections, auditLog >>
    /\ upd[s].pc = "write"
    /\ LET order == actionModal[s].order
           item == order.items[upd[s].i]
       IN /\ \/ /\ stock' = [stock EXCEPT ![item.variant_id] = upd[s].newStock]
                /\ restoreWrites' = [restoreWrites EXCEPT
                        ![order.id][item.variant_id] = @ + 1]
                /\ UNCHANGED faults
             \/ /\ MayFail
                /\ faults' = faults + 1
                /\ UNCHANGED << stock, restoreWrites >>
          /\ upd' = [upd EXCEPT
                ![s].pc = NextStep(order, actionModal[s].newStatus, upd[s].i + 1),
                ![s].i = @ + 1,
                ![s].newStock = 0]
    /\ UNCHANGED << orders, order_items, fetches, updates, createVars, view,
                    actionModal, processingAction, stock0, succeeded >>

\* note.trim(): a note of blanks counts as no note
trim(note) == IF note = " " THEN "" ELSE note

\* let updatedNotes = order.notes || ''; if (note.trim()) updatedNotes += entry
\* (the stored text is modelled as the sequence of its entries)
updatedNotes(order, newStatus, note) ==
    IF trim(note) # ""
    THEN Append(order.notes, [status |-> newStatus, note |-> note])
    ELSE order.notes

\* an update that replaces the row by one built from status and notes alone
replaceRow(row, order, newStatus, notes) ==
    [status |-> newStatus, notes |-> notes, total_amount |-> 0]

\* update({ status: newStatus, notes: updatedNotes }) applied to the stored row
updateStatusAndNotes(row, order, newStatus, notes) ==
    [row EXCEPT !.status = newStatus, !.notes = notes]

\* supabase.from('orders').update({ status: newStatus, notes: updatedNotes }).eq('id', order.id)
WriteStatus(s) ==
    /\ UNCHANGED catalogVars
    /\ UNCHANGED << batchVars, salesVars, rejections, auditLog >>
    /\ upd[s].pc = "status"
    /\ \/ /\ orders' = [orders EXCEPT ![actionModal[s].order.id] =
                updateStatusAndNotes(@, actionModal[s].order, actionModal[s].newStatus,
                    updatedNotes(actionModal[s].order, actionModal[s].newStatus,
                                 actionModal[s].note))]
          /\ upd' = [upd EXCEPT ![s] = [pc |-> "log", i |-> 0, newStock |-> 0]]
          /\ UNCHANGED << faults, processingAction >>
       \/ /\ MayFail                          \* throw error; catch; finally
          /\ faults' = faults + 1
          /\ processingAction' = [processingAction EXCEPT ![s] = FALSE]
          /\ upd' = [upd EXCEPT ![s] = IdleUpd]
          /\ UNCHANGED orders
    /\ UNCHANGED << stock, order_items, fetches, updates, createVars, view,
                    actionModal, histVars >>

\* setOrders(prev => prev.map(...)); toast.success; setActionModal({open: false, ...})
FinishedStatusUpdate(s) ==
    /\ view' = [view EXCEPT ![s] =
            [o \in 1..Len(@) |-> IF @[o].id = actionModal[s].order.id
                                 THEN [@[o] EXCEPT
                                        !.status = actionModal[s].newStatus,
                                        !.notes = updatedNotes(actionModal[s].order,
                                                    actionModal[s].newStatus,
                                                    actionModal[s].note)]
                                 ELSE @[o]]]
    /\ actionModal' = [actionModal EXCEPT ![s] = ClosedModal]

\* await logAction(...); setOrders(...); toast.success; setActionModal(closed); finally
\* (had logAction thrown, the catch block would have run instead)
FinishStatusUpdate(s) ==
    /\ UNCHANGED catalogVars
    /\ UNCHANGED << batchVars, salesVars, rejections >>
    /\ upd[s].pc = "log"
    /\ \E rpcOk \in BOOLEAN :
        /\ rpcOk \/ MayFail
        /\ faults' = IF rpcOk THEN faults ELSE faults + 1
        /\ LET r == logAction(rpcOk)
           IN /\ auditLog' = auditLog + r.rows
              /\ IF r.returned
                 THEN FinishedStatusUpdate(s)
                 ELSE UNCHANGED << view, actionModal >>
    /\ processingAction' = [processingAction EXCEPT ![s] = FALSE]
    /\ upd' = [upd EXCEPT ![s] = IdleUpd]
    /\ UNCHANGED << storeVars, fetches, updates, createVars, histVars >>

\* the Close button of the modal: setActionModal({...actionModal, open: false})
closeModal(s) ==
    /\ UNCHANGED catalogVars
    /\ UNCHANGED << batchVars, salesVars, rejections, auditLog >>
    /\ actionModal[s].open
    /\ ~processingAction[s]
    /\ actionModal' = [actionModal EXCEPT ![s] = ClosedModal]
    /\ UNCHANGED << storeVars, faults, fetches, updates, createVars, view,
                    processingAction, upd, histVars >>

\* ------------------------------------------- Orders page: batch printing
\* the options of the status select
StatusFilters == {"all"} \cup Statuses

setStatusFilter(s) ==
    /\ UNCHANGED catalogVars
    /\ ~actionModal[s].open
    /\ \E f \in StatusFilters : statusFilter' = [statusFilter EXCEPT ![s] = f]
    /\ UNCHANGED << storeVars, faults, fetches, updates, createVars, ordersVars,
                    selectedOrderIds, manifest, salesVars, rejections, auditLog,
                    histVars >>

\* filteredOrders, the search box left empty
filteredOrders(s) ==
    SelectSeq(view[s], LAMBDA order :
        statusFilter[s] = "all" \/ order.status = statusFilter[s])

\* the ids of a list of orders
RECURSIVE IdsOf(_)
IdsOf(list) == IF list = <<>> THEN {} ELSE {Head(list).id} \cup IdsOf(Tail(list))

\* the tick box of a row of the table (the rows are filteredOrders)
toggleSelectOrder(s) ==
    /\ UNCHANGED catalogVars
    /\ ~actionModal[s].open
    /\ \E id \in IdsOf(filteredOrders(s)) :
          selectedOrderIds' = [selectedOrderIds EXCEPT ![s] =
                IF id \in @ THEN @ \ {id} ELSE @ \cup {id}]
    /\ UNCHANGED << storeVars, faults, fetches, updates, createVars, ordersVars,
                    statusFilter, manifest, salesVars, rejections, auditLog,
                    histVars >>

\* the tick box of the table header
toggleSelectAll(s) ==
    /\ UNCHANGED catalogVars
    /\ ~actionModal[s].open
    /\ selectedOrderIds' = [selectedOrderIds EXCEPT ![s] =
            IF Cardinality(@) = Len(filteredOrders(s))
            THEN {}
            ELSE IdsOf(filteredOrders(s))]
    /\ UNCHANGED << storeVars, faults, fetches, updates, createVars, ordersVars,
                    statusFilter, manifest, salesVars, rejections, auditLog,
                    histVars >>

\* a manifest that lists every order of the page
selectedDataAll(list, ids) == list

\* orders.filter(o => selectedOrderIds.includes(o.id))
selectedData(list, ids) == SelectSeq(list, LAMBDA o : o.id \in ids)

\* selectedData.reduce((sum, o) => sum + (o.total_amount || 0), 0)
RECURSIVE totalBatchValue(_)
totalBatchValue(list) ==
    IF list = <<>> THEN 0 ELSE Head(list).total_amount + totalBatchValue(Tail(list))

\* documents printed so far
Prints == Len(manifest["A"]) + Len(manifest["B"])

\* generateManifest: the guard of its first line stands between the handler
\* and an empty selection; logAction is called without await
generateManifest(s) ==
    /\ UNCHANGED catalogVars
    /\ ~actionModal[s].open
    /\ IF Cardinality(selectedOrderIds[s]) = 0
       THEN /\ rejections < MaxRejects          \* toast.error, return
            /\ rejections' = rejections + 1
            /\ UNCHANGED << manifest, faults, auditLog >>
       ELSE /\ Prints < MaxPrints
            /\ \E rpcOk \in BOOLEAN :
                 /\ rpcOk \/ MayFail
                 /\ faults' = IF rpcOk THEN faults ELSE faults + 1
                 /\ auditLog' = auditLog + logAction(rpcOk).rows
            /\ LET data == selectedData(view[s], selectedOrderIds[s])
               IN manifest' = [manifest EXCEPT ![s] = Append(@,
                     [selected |-> selectedOrderIds[s],
                      rows |-> IdsOf(data),
                      totalBatchValue |-> totalBatchValue(data)])]
            /\ UNCHANGED rejections
    /\ UNCHANGED << storeVars, fetches, updates, createVars, ordersVars,
                    selectedOrderIds, statusFilter, salesVars, histVars >>

\* ------------------------------------------- Sales page: BulkSalesPanel
\* values of the percent input (a number input: its text is a number or empty,
\* and empty compares like 0) and of the category select ("" = none chosen)
Percents == {-5, 0, 20, 50, 100}
CategoryChoices == {""} \cup Categories

\* n / d rounded to the nearest integer, halves upwards
RoundDiv(n, d) == (2 * n + d) \div (2 * d)

\* rpc apply_category_discount(target_category_id, discount_percent): for every
\* active product of the category, sale_price = round(price * (1 - percent/100), 2)
\* and is_on_sale = true
apply_category_discount(prods, cat, percent) ==
    [p \in Products |->
        IF prods[p].category_id = cat /\ prods[p].is_active
        THEN [prods[p] EXCEPT !.is_on_sale = TRUE,
                              !.sale_price = RoundDiv(prods[p].price * (100 - percent), 100)]
        ELSE prods[p]]

\* the rows of a category that are not archived
eqActiveCategory(prods, catId) ==
    { p \in Products : prods[p].category_id = catId /\ prods[p].is_active }

\* .eq('category_id', catId): the rows the filter of stopCategorySale hits
eqCategory(prods, catId) == { p \in Products : prods[p].category_id = catId }

\* the rows that are not archived
activeRows(prods) == { p \in Products : prods[p].is_active }

\* .not('id', 'is', null): the rows the filter of handleClearAll hits (every
\* row has an id)
notIdIsNull(prods) == Products

\* a clearing that also hides the products it clears
ClearSaleAndHide(prods, rows) ==
    [p \in Products |->
        IF p \in rows
        THEN [prods[p] EXCEPT !.is_on_sale = FALSE, !.sale_price = null,
                              !.is_active = FALSE]
        ELSE prods[p]]

\* from('products').update({ is_on_sale: false, sale_price: null }) on rows
ClearSale(prods, rows) ==
    [p \in Products |->
        IF p \in rows
        THEN [prods[p] EXCEPT !.is_on_sale = FALSE, !.sale_price = null]
        ELSE prods[p]]

\* fetchActiveSales: the categories of the products with is_on_sale and is_active
ActiveSaleCategories ==
    { products[p].category_id :
        p \in { q \in Products : products[q].is_on_sale /\ products[q].is_active } }

\* fetchActiveSales on mount
fetchActiveSales(s) ==
    /\ UNCHANGED catalogVars
    /\ sale[s].pc = "idle"
    /\ activeSales' = [activeSales EXCEPT ![s] = ActiveSaleCategories]
    /\ UNCHANGED << storeVars, faults, fetches, updates, createVars, ordersVars,
                    batchVars, products, sale, saleLoading, discounts,
                    rejections, auditLog, histVars >>

\* the validation of handleCategorySale with the upper limit left out
InvalidSaleNoUpper(cat, percent) == cat = "" \/ percent <= 0

\* if (!selectedCat) return ...; if (percent <= 0 || percent >= 100) return ...
InvalidSale(cat, percent) == cat = "" \/ percent <= 0 \/ percent >= 100

\* handleCategorySale up to its await (the Apply button is disabled while loading)
handleCategorySale(s) ==
    /\ UNCHANGED catalogVars
    /\ ~saleLoading[s]
    /\ sale[s].pc = "idle"
    /\ \E selectedCat \in CategoryChoices, percent \in Percents, confirmed \in BOOLEAN :
        IF InvalidSale(selectedCat, percent)
        THEN /\ rejections < MaxRejects          \* toast.error, return
             /\ rejections' = rejections + 1
             /\ UNCHANGED << sale, saleLoading, discounts >>
        ELSE IF ~confirmed                        \* window.confirm declined
        THEN UNCHANGED << sale, saleLoading, discounts, rejections >>
        ELSE /\ discounts < MaxDiscounts
             /\ discounts' = discounts + 1
             /\ saleLoading' = [saleLoading EXCEPT ![s] = TRUE]
             /\ sale' = [sale EXCEPT ![s] =
                    [pc |-> "rpc", op |-> "apply", cat |-> selectedCat,
                     percent |-> percent]]
             /\ UNCHANGED rejections
    /\ UNCHANGED << storeVars, faults, fetches, updates, createVars, ordersVars,
                    batchVars, products, activeSales, auditLog, histVars >>

\* stopCategorySale up to its await: the Stop Sale button of a row of activeSales,
\* window.confirm accepted (the operator lets a running discount handler
\* finish first)
stopCategorySale(s) ==
    /\ UNCHANGED catalogVars
    /\ sale[s].pc = "idle"
    /\ discounts < MaxDiscounts
    /\ \E catId \in activeSales[s] :
          sale' = [sale EXCEPT ![s] =
                [pc |-> "update", op |-> "stop", cat |-> catId, percent |-> 0]]
    /\ discounts' = discounts + 1
    /\ saleLoading' = [saleLoading EXCEPT ![s] = TRUE]
    /\ UNCHANGED << storeVars, faults, fetches, updates, createVars, ordersVars,
                    batchVars, products, activeSales, rejections, auditLog,
                    histVars >>

\* handleClearAll up to its await, window.confirm accepted (the Reset button
\* is disabled while loading)
handleClearAll(s) ==
    /\ UNCHANGED catalogVars
    /\ ~saleLoading[s]
    /\ sale[s].pc = "idle"
    /\ discounts < MaxDiscounts
    /\ discounts' = discounts + 1
    /\ saleLoading' = [saleLoading EXCEPT ![s] = TRUE]
    /\ sale' = [sale EXCEPT ![s] =
            [pc |-> "update", op |-> "clearAll", cat |-> "", percent |-> 0]]
    /\ UNCHANGED << storeVars, faults, fetches, updates, createVars, ordersVars,
                    batchVars, products, activeSales, rejections, auditLog,
                    histVars >>

\* catch + finally of the three discount handlers
SaleFailed(s) ==
    /\ saleLoading' = [saleLoading EXCEPT ![s] = FALSE]
    /\ sale' = [sale EXCEPT ![s] = IdleSale]

\* await supabase.rpc('apply_category_discount', {...}); if (error) throw error
ApplyDiscount(s) ==
    /\ UNCHANGED catalogVars
    /\ sale[s].pc = "rpc"
    /\ \/ /\ products' = apply_category_discount(products, sale[s].cat, sale[s].percent)
          /\ sale' = [sale EXCEPT ![s].pc = "log"]
          /\ UNCHANGED << faults, saleLoading >>
       \/ /\ MayFail
          /\ faults' = faults + 1
          /\ SaleFailed(s)
          /\ UNCHANGED products
    /\ UNCHANGED << storeVars, fetches, updates, createVars, ordersVars, batchVars,
                    activeSales, discounts, rejections, auditLog, histVars >>

\* stopCategorySale: update(...).eq('category_id', catId);
\* handleClearAll: update(...).not('id', 'is', null); if (error) throw error
ClearDiscount(s) ==
    /\ UNCHANGED catalogVars
    /\ sale[s].pc = "update"
    /\ \/ /\ products' =
                IF sale[s].op = "stop"
                THEN ClearSale(products, eqCategory(products, sale[s].cat))
                ELSE ClearSale(products, notIdIsNull(products))
          /\ sale' = [sale EXCEPT ![s].pc = "log"]
          /\ UNCHANGED << faults, saleLoading >>
       \/ /\ MayFail
          /\ faults' = faults + 1
          /\ SaleFailed(s)
          /\ UNCHANGED products
    /\ UNCHANGED << storeVars, fetches, updates, createVars, ordersVars, batchVars,
                    activeSales, discounts, rejections, auditLog, histVars >>

\* await logAction(...); toast.success; fetchActiveSales(); finally
\* (had logAction thrown, the catch block would have run instead)
FinishDiscount(s) ==
    /\ UNCHANGED catalogVars
    /\ sale[s].pc = "log"
    /\ \E rpcOk \in BOOLEAN :
        /\ rpcOk \/ MayFail
        /\ faults' = IF rpcOk THEN faults ELSE faults + 1
        /\ LET r == logAction(rpcOk)
           IN /\ auditLog' = auditLog + r.rows
              /\ activeSales' = IF r.returned
                                THEN [activeSales EXCEPT ![s] = ActiveSaleCategories]
                                ELSE activeSales
    /\ SaleFailed(s)
    /\ UNCHANGED << storeVars, fetches, updates, createVars, ordersVars, batchVars,
                    products, discounts, rejections, histVars >>

\* ------------------------------------------------- TrendingManager page
\* Math.max(...trending.map(t => t.position))
maxPosition(list) ==
    CHOOSE m \in { list[i].position : i \in DOMAIN list } :
        \A i \in DOMAIN list : list[i].position <= m

\* newList.sort((a, b) => a.position - b.position): a stable sort
RECURSIVE insertByPosition(_, _)
insertByPosition(list, r) ==
    IF list = <<>> THEN <<r>>
    ELSE IF Head(list).position <= r.position
         THEN <<Head(list)>> \o insertByPosition(Tail(list), r)
         ELSE <<r>> \o list
RECURSIVE sort(_)
sort(list) ==
    IF list = <<>> THEN <<>>
    ELSE insertByPosition(sort(SubSeq(list, 1, Len(list) - 1)), list[Len(list)])

\* what an update of the supabase client gives to Promise.all: a promise that
\* resolves, with { error } when the store refused the update; it does not reject
updateResult(ok) == [rejected |-> FALSE, error |-> ~ok]

\* fetchTrending, as started by addToTrending or by the catch of moveItem
fetchTrending(s) ==
    /\ trend[s].refetch
    /\ trend' = [trend EXCEPT ![s].refetch = FALSE]
    /\ \/ /\ trending' = [trending EXCEPT ![s] = byPosition(trending_products)]
          /\ UNCHANGED faults
       \/ /\ MayFail
          /\ faults' = faults + 1
          /\ UNCHANGED trending
    /\ UNCHANGED << deskVars, storeVars, salesVars, auditLog, trending_products,
                    trendingSeq, moves, skuVars, arch >>

\* addToTrending(product): the product is one of the search results, which
\* leave out the products of the local list
addToTrending(s) ==
    /\ trendingSeq < MaxRows
    /\ \E product \in Products \ { trending[s][i].product_id : i \in DOMAIN trending[s] } :
        LET newPosition == IF Len(trending[s]) > 0 THEN maxPosition(trending[s]) + 1 ELSE 1
        IN  \/ \E rpcOk \in BOOLEAN :
                 /\ rpcOk \/ MayFail
                 /\ faults' = IF rpcOk THEN faults ELSE faults + 1
                 /\ trending_products' = trending_products \cup
                        { TrendingRow(trendingSeq + 1, product, newPosition) }
                 /\ trendingSeq' = trendingSeq + 1
                 /\ auditLog' = auditLog + logAction(rpcOk).rows
                 /\ trend' = [trend EXCEPT ![s].refetch = TRUE]
            \/ /\ MayFail
               /\ faults' = faults + 1
               /\ UNCHANGED << trending_products, trendingSeq, auditLog, trend >>
    /\ UNCHANGED << deskVars, storeVars, salesVars, trending, moves, skuVars, arch >>

\* removeFromTrending(id) for a row of the local list
removeFromTrending(s) ==
    /\ \E i \in DOMAIN trending[s] :
        LET id == trending[s][i].id
        IN  \/ \E rpcOk \in BOOLEAN :
                 /\ rpcOk \/ MayFail
                 /\ faults' = IF rpcOk THEN faults ELSE faults + 1
                 /\ trending_products' = { r \in trending_products : r.id # id }
                 /\ trending' = [trending EXCEPT ![s] =
                        SelectSeq(@, LAMBDA item : item.id # id)]
                 /\ auditLog' = auditLog + logAction(rpcOk).rows
            \/ /\ MayFail
               /\ faults' = faults + 1
               /\ UNCHANGED << trending_products, trending, auditLog >>
    /\ UNCHANGED << deskVars, storeVars, salesVars, trendingSeq, trend, moves,
                    skuVars, arch >>

\* moveItem(index, direction): bounds check, optimistic swap of the two
\* positions in the local list, and the two updates sent together
moveItem(s) ==
    /\ moves < MaxMoves
    /\ moves' = moves + 1
    /\ \E index \in DOMAIN trending[s], direction \in {"up", "down"} :
        LET newIndex == IF direction = "up" THEN index - 1 ELSE index + 1
        IN  IF newIndex < 1 \/ newIndex > Len(trending[s])
            THEN UNCHANGED << trending, trend >>
            ELSE LET itemA == trending[s][index]
                     itemB == trending[s][newIndex]
                     newList == [trending[s] EXCEPT
                                    ![index] = [itemB EXCEPT !.position = itemA.position],
                                    ![newIndex] = [itemA EXCEPT !.position = itemB.position]]
                 IN  /\ trending' = [trending EXCEPT ![s] = sort(newList)]
                     /\ trend' = [trend EXCEPT
                            ![s].pending = @ \o
                                << [id |-> itemB.id, position |-> itemA.position],
                                   [id |-> itemA.id, position |-> itemB.position] >>,
                            ![s].failed = IF trend[s].pending = <<>> THEN FALSE ELSE @]
    /\ UNCHANGED << deskVars, storeVars, salesVars, faults, auditLog,
                    trending_products, trendingSeq, skuVars, arch >>

\* one of the updates in flight reaches the store:
\* update({ position }).eq('id', id); when the last one has returned,
\* Promise.all settles and the catch runs if it rejected
UpdatePosition(s) ==
    /\ \E n \in DOMAIN trend[s].pending, ok \in BOOLEAN :
        LET u == trend[s].pending[n] IN
        /\ ok \/ MayFail
        /\ faults' = IF ok THEN faults ELSE faults + 1
        /\ trending_products' =
              IF ok THEN { IF r.id = u.id THEN [r EXCEPT !.position = u.position] ELSE r :
                           r \in trending_products }
              ELSE trending_products
        /\ trend' = [trend EXCEPT
              ![s].pending = SubSeq(@, 1, n - 1) \o SubSeq(@, n + 1, Len(@)),
              ![s].failed = @ \/ updateResult(ok).error,
              ![s].refetch = @ \/ updateResult(ok).rejected]
    /\ UNCHANGED << deskVars, storeVars, salesVars, auditLog, trendingSeq,
                    trending, moves, skuVars, arch >>

\* ------------------------------------ AddProduct and EditProduct: saves
\* sku?.trim() for the values an SKU field can hold
skuTrim(sku) == IF sku = " a" THEN "a" ELSE sku

\* onSubmit of AddProduct: the product row is inserted (its id comes back
\* from the store); a failure of this insert is thrown
onSubmit(s) ==
    /\ save[s].pc = "idle"
    /\ \E p \in NewProducts \ launched, form \in Forms :
        \/ /\ launched' = launched \cup {p}
           /\ save' = [save EXCEPT ![s] =
                    [pc |-> "variants", product |-> p, form |-> form, toast |-> "none"]]
           /\ UNCHANGED faults
        \/ /\ MayFail
           /\ faults' = faults + 1
           /\ save' = [save EXCEPT ![s] = [IdleSave EXCEPT !.toast = "error"]]
           /\ UNCHANGED launched
    /\ UNCHANGED << deskVars, storeVars, salesVars, auditLog, trendingVars,
                    variant_sku, arch >>

\* E. Insert Variants: product_variants.insert(variantsToInsert) with
\* sku: vData?.sku (every combination in stock); the result of the insert is
\* not inspected, then toast.success
InsertVariants(s) ==
    /\ save[s].pc = "variants"
    /\ \/ /\ variant_sku' = [variant_sku EXCEPT ![save[s].product] = save[s].form]
          /\ UNCHANGED faults
       \/ /\ MayFail
          /\ faults' = faults + 1
          /\ UNCHANGED variant_sku
    /\ save' = [save EXCEPT ![s] = [IdleSave EXCEPT !.toast = "success"]]
    /\ UNCHANGED << deskVars, storeVars, salesVars, auditLog, trendingVars,
                    launched, arch >>

\* skusToCheck of onUpdate: the trimmed, non-empty SKUs of the form
skusToCheck(form) == { skuTrim(form[k]) : k \in VariantKeys } \ {""}

\* onUpdate of EditProduct for a product of the store
onUpdate(s) ==
    /\ save[s].pc = "idle"
    /\ \E p \in (SkuProducts \ NewProducts) \cup launched, form \in Forms :
        save' = [save EXCEPT ![s] =
            [pc |-> IF skusToCheck(form) # {} THEN "check" ELSE "write",
             product |-> p, form |-> form, toast |-> "none"]]
    /\ UNCHANGED << deskVars, storeVars, salesVars, faults, auditLog, trendingVars,
                    variant_sku, launched, arch >>

\* STEP 0: select('sku, products(name)').in('sku', skusToCheck).neq('product_id', id);
\* only data is read: a select that fails yields no conflicts
CheckSkus(s) ==
    /\ save[s].pc = "check"
    /\ \/ LET conflicts == { pk \in (SkuProducts \ {save[s].product}) \X VariantKeys :
                                variant_sku[pk[1]][pk[2]] \in skusToCheck(save[s].form) }
          IN  /\ save' = [save EXCEPT ![s] =
                    IF conflicts # {} THEN [IdleSave EXCEPT !.toast = "error"]
                    ELSE [@ EXCEPT !.pc = "write"]]
              /\ UNCHANGED faults
       \/ /\ MayFail
          /\ faults' = faults + 1
          /\ save' = [save EXCEPT ![s].pc = "write"]
    /\ UNCHANGED << deskVars, storeVars, salesVars, auditLog, trendingVars,
                    variant_sku, launched, arch >>

\* STEP C: product_variants.upsert(updates) with sku: vData?.sku for the rows
\* of the product (every combination has its row); an error is thrown
WriteVariants(s) ==
    /\ save[s].pc = "write"
    /\ \/ /\ variant_sku' = [variant_sku EXCEPT ![save[s].product] = save[s].form]
          /\ save' = [save EXCEPT ![s] = [IdleSave EXCEPT !.toast = "success"]]
          /\ UNCHANGED faults
       \/ /\ MayFail
          /\ faults' = faults + 1
          /\ save' = [save EXCEPT ![s] = [IdleSave EXCEPT !.toast = "error"]]
          /\ UNCHANGED variant_sku
    /\ UNCHANGED << deskVars, storeVars, salesVars, auditLog, trendingVars,
                    launched, arch >>

\* ------------------------------------------- Settings page: Products
\* handleArchive(id, name), the dialog of window.confirm accepted.  The file
\* holds the handler twice: one version inspects the results of its two
\* updates and throws on an error, the other awaits them and goes on.
\* First call: products.update({ is_active: false }).eq('id', id)
handleArchive(s) ==
    /\ arch[s].pc = "idle"
    /\ \E id \in Products, inspects \in BOOLEAN :
        \/ /\ products' = [products EXCEPT ![id].is_active = FALSE]
           /\ arch' = [arch EXCEPT ![s] =
                    [pc |-> "variants", id |-> id, inspects |-> inspects, toast |-> "none"]]
           /\ UNCHANGED faults
        \/ /\ MayFail
           /\ faults' = faults + 1
           /\ arch' = [arch EXCEPT ![s] =
                    IF inspects
                    THEN [pc |-> "idle", id |-> id, inspects |-> inspects, toast |-> "error"]
                    ELSE [pc |-> "variants", id |-> id, inspects |-> inspects, toast |-> "none"]]
           /\ UNCHANGED products
    /\ UNCHANGED << deskVars, stock, orders, order_items, sale, saleLoading,
                    activeSales, discounts, auditLog, trendingVars, skuVars >>

\* Second call: product_variants.update({ stock_quantity: 0 }).eq('product_id', id),
\* then setProducts and toast.success
ResetStock(s) ==
    /\ arch[s].pc = "variants"
    /\ \/ /\ stock' = [v \in Variants |->
                    IF variantProduct[v] = arch[s].id THEN 0 ELSE stock[v]]
          /\ arch' = [arch EXCEPT ![s].pc = "idle", ![s].toast = "success"]
          /\ UNCHANGED faults
       \/ /\ MayFail
          /\ faults' = faults + 1
          /\ arch' = [arch EXCEPT ![s].pc = "idle",
                    ![s].toast = IF arch[s].inspects THEN "error" ELSE "success"]
          /\ UNCHANGED stock
    /\ UNCHANGED << deskVars, orders, order_items, salesVars, auditLog,
                    trendingVars, skuVars >>

\* ---------------------------------------------------------------- Next
CreatePage(s) ==
    \/ addToCart(s)
    \/ removeFromCart(s)
    \/ updateQty(s)
    \/ handleCreateOrder(s)
    \/ InsertOrder(s)
    \/ InsertItems(s)
    \/ DeductStock(s)
    \/ FinishCreate(s)

SalesPage(s) ==
    \/ fetchActiveSales(s)
    \/ handleCategorySale(s)
    \/ stopCategorySale(s)
    \/ handleClearAll(s)
    \/ ApplyDiscount(s)
    \/ ClearDiscount(s)
    \/ FinishDiscount(s)

BatchPrinting(s) ==
    \/ setStatusFilter(s)
    \/ toggleSelectOrder(s)
    \/ toggleSelectAll(s)
    \/ generateManifest(s)

OrdersPage(s) ==
    \/ fetchOrders(s)
    \/ initiateStatusUpdate(s)
    \/ confirmStatusUpdate(s)
    \/ ReadStock(s)
    \/ WriteStock(s)
    \/ WriteStatus(s)
    \/ FinishStatusUpdate(s)
    \/ closeModal(s)

\* one tab on the CreateOrder page, one tab on the Orders page
Next == CreatePage("A") \/ OrdersPage("B")

Spec == Init /\ [][Next]_vars

\* both tabs on the CreateOrder page, no order in the store yet
InitCreate == InitSessions /\ InitStore(0)
NextCreate == \E s \in Sessions : CreatePage(s)
SpecCreate == InitCreate /\ [][NextCreate]_vars

\* both tabs on the Orders page, the store full of storefront orders
InitOrders == InitSessions /\ InitStore(MaxOrders)
NextOrders == \E s \in Sessions : OrdersPage(s)
SpecOrders == InitOrders /\ [][NextOrders]_vars

\* both tabs on the Orders page of a store with one order, the operators
\* also typing notes
NextNotes == \E s \in Sessions : OrdersPage(s) \/ setNote(s)
SpecNotes == Init /\ [][NextNotes]_vars

\* one tab on the Orders page with its batch printing, the store full of
\* storefront orders
NextBatch == OrdersPage("A") \/ BatchPrinting("A")
SpecBatch == InitOrders /\ [][NextBatch]_vars

\* tab A on the Orders page, printing all of its orders or none; tab B on the
\* Sales page
NextOffice ==
    OrdersPage("A") \/ toggleSelectAll("A") \/ generateManifest("A") \/ SalesPage("B")
SpecOffice == Init /\ [][NextOffice]_vars

\* both tabs on the Sales page
NextSales == \E s \in Sessions : SalesPage(s)
SpecSales == Init /\ [][NextSales]_vars

\* tab A takes phone orders, tab B works on the orders; every store call of a
\* running handler returns in the end (weak fairness of the handler's steps);
\* tab B confirms one status change more than there are faults to spend
NextLive ==
    \/ addToCart("A") \/ handleCreateOrder("A")
    \/ InsertOrder("A") \/ InsertItems("A") \/ DeductStock("A") \/ FinishCreate("A")
    \/ fetchOrders("B") \/ initiateStatusUpdate("B")
    \/ (updates < MaxFaults + 1 /\ confirmStatusUpdate("B"))
    \/ ReadStock("B") \/ WriteStock("B") \/ WriteStatus("B") \/ FinishStatusUpdate("B")
StoreCallsReturn ==
    /\ WF_vars(InsertOrder("A")) /\ WF_vars(InsertItems("A"))
    /\ WF_vars(DeductStock("A")) /\ WF_vars(FinishCreate("A"))
    /\ WF_vars(ReadStock("B")) /\ WF_vars(WriteStock("B"))
    /\ WF_vars(WriteStatus("B")) /\ WF_vars(FinishStatusUpdate("B"))
SpecLive == Init /\ [][NextLive]_vars /\ StoreCallsReturn

\* both tabs on the TrendingManager page
TrendingPage(s) ==
    \/ fetchTrending(s)
    \/ addToTrending(s)
    \/ removeFromTrending(s)
    \/ moveItem(s)
    \/ UpdatePosition(s)
NextTrending == \E s \in Sessions : TrendingPage(s)
SpecTrending == Init /\ [][NextTrending]_vars

\* both tabs on the product forms (AddProduct, EditProduct)
ProductForms(s) ==
    \/ onSubmit(s)
    \/ InsertVariants(s)
    \/ onUpdate(s)
    \/ CheckSkus(s)
    \/ WriteVariants(s)
NextSku == \E s \in Sessions : ProductForms(s)
SpecSku == Init /\ [][NextSku]_vars

\* both tabs on the Products list of the Settings page
ProductsList(s) == handleArchive(s) \/ ResetStock(s)
NextArchive == \E s \in Sessions : ProductsList(s)
SpecArchive == Init /\ [][NextArchive]_vars

\* ============================================================ properties
\* no handleCreateOrder and no confirmStatusUpdate is between two of its steps
Quiescent == \A s \in Sessions : create[s].pc = "idle" /\ upd[s].pc = "idle"

\* a running confirmStatusUpdate works on order o
UpdateInFlight(o) ==
    \E s \in Sessions : upd[s].pc # "idle" /\ actionModal[s].order.id = o

\* a running handleCreateOrder has inserted order o and is not finished
CreateInFlight(o) ==
    \E s \in Sessions : create[s].pc # "idle" /\ create[s].order = o

OrderIds == 1..Len(orders)

\* the variants among the line items of order o
VariantsOf(o) == { v \in Variants : QtyOf(order_items[o], v) > 0 }

\* units of v in the orders 1..n whose creation reported success
RECURSIVE ReservedUpTo(_, _)
ReservedUpTo(n, v) ==
    IF n = 0 THEN 0
    ELSE (IF n \in succeeded THEN QtyOf(order_items[n], v) ELSE 0) + ReservedUpTo(n - 1, v)

\* units of v given back by the restoring updates applied for the orders 1..n
RECURSIVE RestoredUpTo(_, _)
RestoredUpTo(n, v) ==
    IF n = 0 THEN 0
    ELSE restoreWrites[n][v] * QtyOf(order_items[n], v) + RestoredUpTo(n - 1, v)

\* C1: every variant's stock_quantity in the store is >= 0 after any sequence
\* of order creations and cancellations.
C1_StockNeverNegative == \A v \in Variants : stock[v] >= 0

\* C2: while no store call has failed, the stock of each line item of an order
\* is restored at most once, and exactly once when the order is cancelled (a
\* second cancellation restores nothing).
C2_RestoredExactlyOnce ==
    faults = 0 =>
        \A o \in OrderIds : \A v \in VariantsOf(o) :
            /\ restoreWrites[o][v] <= 1
            /\ (orders[o].status = "cancelled" /\ ~UpdateInFlight(o))
                    => restoreWrites[o][v] = 1

\* C3: the stored status of an order changes only along the transition
\* table; every other requested change leaves it as it is (stated for the
\* steps of runs in which no store call has failed).
C3_OnlyTableTransitions ==
    [][faults' = 0 =>
          \A o \in OrderIds :
              orders'[o].status # orders[o].status
                  => << orders[o].status, orders'[o].status >> \in TransitionTable]_vars

\* C4: delivered and cancelled are absorbing: the status of such an order is
\* never changed again, and no stock is restored for a delivered order
\* (stated for the steps of runs in which no store call has failed).
C4_TerminalAbsorbing ==
    [][faults' = 0 =>
          \A o \in OrderIds :
              /\ orders[o].status \in {"delivered", "cancelled"}
                    => orders'[o].status = orders[o].status
              /\ orders[o].status = "delivered"
                    => restoreWrites'[o] = restoreWrites[o]]_vars

\* C5: a handleCreateOrder whose cart asked, at submission, for more than
\* the live stock of some variant changes no stock and does not get to its
\* success toast.
C5_AllOrNothing ==
    \A s \in Sessions :
        create[s].short => create[s].deducted = 0 /\ create[s].pc # "log"

\* C6: no order row without line items stays in the store once the
\* handleCreateOrder that inserted it is over (a failed attempt is rolled back).
C6_FailedCreateRolledBack ==
    \A o \in OrderIds : order_items[o] = <<>> => CreateInFlight(o)

\* C7: when two handleCreateOrder runs have both reported success (no store
\* call failed, nothing in flight), each variant's stock is its initial
\* stock minus the quantities of both orders.
C7_NoLostUpdate ==
    (faults = 0 /\ Quiescent /\ Cardinality(succeeded) = 2)
        => \A v \in Variants : stock[v] = stock0[v] - ReservedUpTo(Len(orders), v)

\* C8: when cancellations of different orders have run to their end (no
\* store call failed, nothing in flight, no order restored twice), each
\* variant's stock is its initial stock plus the quantities restored.
C8_RestoreIsIncrement ==
    (/\ faults = 0
     /\ Quiescent
     /\ succeeded = {}
     /\ \A o \in OrderIds : \A v \in Variants : restoreWrites[o][v] <= 1)
        => \A v \in Variants : stock[v] = stock0[v] + RestoredUpTo(Len(orders), v)

\* C9: after the only confirmStatusUpdate of a run is over, the order is
\* cancelled if and only if the stock of all its line items was restored.
C9_CancelAtomic ==
    updates <= 1 =>
        \A o \in OrderIds :
            (~UpdateInFlight(o) /\ VariantsOf(o) # {})
                => (orders[o].status = "cancelled"
                        <=> \A v \in VariantsOf(o) : restoreWrites[o][v] >= 1)

\* C10: the total_amount of every order that handleCreateOrder has persisted
\* (and is done with) is the sum of quantity * price_at_purchase over its
\* persisted line items.
C10_TotalMatchesItems ==
    \A o \in OrderIds :
        ~CreateInFlight(o) => orders[o].total_amount = ItemsTotal(order_items[o])

\* s is a prefix of t
IsPrefix(s, t) == Len(s) <= Len(t) /\ SubSeq(t, 1, Len(s)) = s

\* C11: the notes of an order are append-only: whatever a status update stores,
\* the notes stored before it are a prefix of the notes stored after it.
C11_NotesAppendOnly ==
    [][\A o \in 1..Len(orders) : IsPrefix(orders[o].notes, orders'[o].notes)]_vars

\* sum of the stored total_amount over the orders with an id in ids, ids 1..n
RECURSIVE StoredTotalUpTo(_, _)
StoredTotalUpTo(n, ids) ==
    IF n = 0 THEN 0
    ELSE (IF n \in ids THEN orders[n].total_amount ELSE 0) + StoredTotalUpTo(n - 1, ids)

\* C12: generateManifest with an empty selection is turned down and prints
\* nothing; with a non-empty selection the document lists exactly the selected
\* orders and its grand total is the sum of their total_amount.
C12_ManifestOfSelection ==
    [][ /\ (rejections' # rejections => manifest' = manifest /\ auditLog' = auditLog)
        /\ \A s \in Sessions :
              manifest'[s] # manifest[s] =>
                LET doc == manifest'[s][Len(manifest'[s])]
                IN /\ selectedOrderIds[s] # {}
                   /\ doc.rows = selectedOrderIds[s]
                   /\ doc.totalBatchValue =
                        StoredTotalUpTo(Len(orders), selectedOrderIds[s]) ]_vars

\* a manifest of one of the two orders has been printed, after an attempt with
\* nothing selected was turned down
C12_Witness ==
    /\ rejections = 1
    /\ Len(manifest["A"]) = 1
    /\ Cardinality(manifest["A"][1].selected) = 1
    /\ Len(view["A"]) = 2

\* C13: handleCreateOrder with an empty cart, or without the customer's name or
\* phone, is turned down and writes nothing to the store: only a submission
\* with a cart and a customer starts the handler, and only a started handler
\* writes.
C13_InvalidOrderRejected ==
    [][ /\ (rejections' # rejections =>
                storeVars' = storeVars /\ create' = create /\ loading' = loading)
        /\ \A s \in Sessions :
              (create[s].pc = "idle" /\ create'[s].pc # "idle") =>
                /\ Len(cart[s]) > 0
                /\ create'[s].customer.name # ""
                /\ create'[s].customer.phone # ""
        /\ (storeVars' # storeVars => \E s \in Sessions : create[s].pc # "idle") ]_vars

\* a submission has been turned down, the store still without any order
C13_Witness ==
    /\ rejections = 1
    /\ orders = <<>>
    /\ stock = stock0
    /\ \E s \in Sessions : Len(cart[s]) > 0

\* C14: a handler reports success only if every store write it issued
\* succeeded: a handleCreateOrder that is about to toast success has applied
\* the stock update of every cart entry.
C14_SuccessOnlyAfterAllWrites ==
    \A s \in Sessions : create[s].pc = "log" => create[s].deducted = Len(cart[s])

\* C15: outside a transition into cancelled the order workflow never
\* increases stock: no step of handleCreateOrder raises the stock of a variant.
C15_CreateNeverIncreasesStock ==
    [][\A v \in Variants : stock'[v] <= stock[v]]_vars

\* C16: after creation only status and notes of an order change: no status
\* transition, cancellation, discount operation or manifest print changes the
\* total_amount of an order, its line items, or the set of orders.
C16_OnlyStatusAndNotesChange ==
    [][ /\ Len(orders') = Len(orders)
        /\ \A o \in 1..Len(orders) :
              /\ orders'[o].total_amount = orders[o].total_amount
              /\ order_items'[o] = order_items[o] ]_vars

\* the order has been cancelled, a manifest printed and a discount applied
C16_Witness ==
    /\ orders[1].status = "cancelled"
    /\ Len(manifest["A"]) = 1
    /\ products["P1"].is_on_sale

C18_InvalidSaleRejected ==
    [][ /\ (rejections' # rejections =>
                products' = products /\ sale' = sale /\ discounts' = discounts)
        /\ \A s \in Sessions :
              (sale[s].pc = "idle" /\ sale'[s].pc = "rpc") =>
                /\ sale'[s].cat \in Categories
                /\ 0 < sale'[s].percent /\ sale'[s].percent < 100
        /\ (products' # products =>
                \E s \in Sessions : sale[s].pc \in {"rpc", "update"}) ]_vars

\* a discount has been turned down and the catalogue is as it was
C18_Witness ==
    /\ rejections = 1
    /\ discounts = 0
    /\ products = InitProducts

\* C19: a category discount of p percent puts every active product of the
\* category on sale at price * (1 - p/100) rounded to the paisa (1000 at 20
\* percent gives 800); stopCategorySale then leaves every product of the
\* category, archived or not, with sale_price = null and is_on_sale = FALSE.
C19_ApplyThenStop ==
    [][\A s \in Sessions :
        /\ (sale[s].pc = "rpc" /\ sale'[s].pc = "log") =>
              /\ \A p \in Products :
                    (products[p].category_id = sale[s].cat /\ products[p].is_active) =>
                      LET exact == products[p].price * (100 - sale[s].percent)
                          stored == 100 * products'[p].sale_price
                      IN /\ products'[p].is_on_sale
                         /\ exact - 50 < stored /\ stored <= exact + 50
              /\ (sale[s].cat = "kurta" /\ sale[s].percent = 20) =>
                    products'["P1"].sale_price = 80000
        /\ (sale[s].pc = "update" /\ sale[s].op = "stop" /\ sale'[s].pc = "log") =>
              \A p \in Products :
                  products[p].category_id = sale[s].cat =>
                      products'[p].sale_price = null /\ ~products'[p].is_on_sale ]_vars

\* the sale of the kurta category, applied earlier, has just been stopped
C19_Witness ==
    \E s \in Sessions :
        /\ sale[s].pc = "log" /\ sale[s].op = "stop" /\ sale[s].cat = "kurta"
        /\ \A p \in {"P1", "P2"} : products[p].sale_price = null /\ ~products[p].is_on_sale

\* C20: after a successful handleClearAll every product, of every category
\* and archived or not, has is_on_sale = FALSE and sale_price = null.
C20_ClearAllClearsEverything ==
    [][\A s \in Sessions :
        (sale[s].pc = "update" /\ sale[s].op = "clearAll" /\ sale'[s].pc = "log") =>
            \A p \in Products :
                products'[p].sale_price = null /\ ~products'[p].is_on_sale ]_vars

\* handleClearAll has just cleared a catalogue that had a running sale
C20_Witness ==
    \E s \in Sessions :
        /\ sale[s].pc = "log" /\ sale[s].op = "clearAll"
        /\ discounts >= 2
        /\ \A p \in Products : products[p].sale_price = null /\ ~products[p].is_on_sale


\* C21: the discount handlers leave the stock of every variant as it is and
\* change nothing of a product but its sale_price and is_on_sale.
C21_DiscountsTouchOnlySaleFields ==
    [][ (sale' # sale \/ products' # products) =>
            /\ stock' = stock
            /\ \A p \in Products :
                  /\ products'[p].price = products[p].price
                  /\ products'[p].is_active = products[p].is_active
                  /\ products'[p].category_id = products[p].category_id ]_vars

\* a sale is running, started and stopped sales lie behind, and the stock has
\* meanwhile been changed by a cancellation
C21_Witness ==
    /\ discounts >= 2
    /\ products["P1"].is_on_sale
    /\ stock # stock0


\* C22: every order handleCreateOrder inserts starts as confirmed, and stock
\* is deducted for an order only once its row and its line items are stored.
C22_ConfirmedThenReserved ==
    [][ /\ (Len(orders') > Len(orders) => orders'[Len(orders')].status = "confirmed")
        /\ (stock' # stock =>
                \E s \in Sessions :
                    /\ create[s].pc = "deduct"
                    /\ create[s].order \in 1..Len(orders)
                    /\ order_items[create[s].order] # <<>>
                    /\ order_items[create[s].order] = orderItems(cart[s])) ]_vars

\* a handleCreateOrder has deducted stock for its stored, confirmed order
C22_Witness ==
    \E s \in Sessions :
        /\ create[s].deducted >= 1
        /\ orders[create[s].order].status = "confirmed"
        /\ order_items[create[s].order] # <<>>


\* C23: for every status, renderActionButtons offers exactly the targets of the
\* transition table; so with one tab at work, whose view is up to date, a stored
\* status only moves one step along the happy path or to cancelled.
C23_ButtonsFollowTable ==
    [][ /\ \A st \in Statuses :
              renderActionButtons(st) =
                  { t \in Statuses : <<st, t>> \in TransitionTable }
        /\ \A o \in 1..Len(orders) :
              orders'[o].status # orders[o].status =>
                  <<orders[o].status, orders'[o].status>> \in TransitionTable ]_vars

\* one order was confirmed and packed, the other cancelled
C23_Witness ==
    /\ Len(orders) = 2
    /\ orders[1].status = "processing"
    /\ orders[2].status = "cancelled"


\* C24: every cart entry has 1 <= qty <= max_stock, max_stock being the stock
\* of the variant when the entry was added.
C24_CartWithinCeiling ==
    \A s \in Sessions : \A i \in 1..Len(cart[s]) :
        1 <= cart[s][i].qty /\ cart[s][i].qty <= cart[s][i].max_stock


\* C25: every started handleCreateOrder and every started confirmStatusUpdate
\* comes to its end, with success or failure, and clears its busy flag,
\* provided every store call returns.
C25_HandlersComplete ==
    /\ loading["A"] ~> ~loading["A"]
    /\ processingAction["B"] ~> ~processingAction["B"]

C25_Witness ==
    /\ faults = 1 /\ ~loading["A"] /\ create["A"] = IdleCreate
    /\ Len(orders) = 2 /\ order_items[2] = <<>>
    /\ updates >= 1 /\ ~processingAction["B"] /\ upd["B"] = IdleUpd


\* C30: toggleSelectAll, used while some visible order is not selected, makes
\* the selection exactly the visible orders, and clears the selection only
\* when every visible order is already selected.  (A step that changes the
\* selection without a fetch and is not the toggle of one visible row is a
\* step of toggleSelectAll.)
C30_SelectAllSelectsVisible ==
    [][ \A s \in Sessions :
          LET vis == IdsOf(filteredOrders(s))
              sel == selectedOrderIds[s]
              rowToggle == \E id \in vis :
                  selectedOrderIds'[s] = (sel \ {id}) \cup ({id} \ sel)
          IN  (selectedOrderIds'[s] # sel /\ fetches' = fetches /\ ~rowToggle) =>
                  selectedOrderIds'[s] = IF vis \subseteq sel THEN {} ELSE vis ]_vars


\* C28: when handleArchive reports success for a product, the product is
\* inactive and each of its variants has stock 0 in the store.  (A handler
\* whose update failed leaves the product active or the stock in place, so
\* this also says that it reports no success then.)
C28_ArchivedMeansInactiveAndEmpty ==
    [][ \A s \in Sessions :
          (arch[s].pc # "idle" /\ arch'[s].toast = "success") =>
              /\ ~products'[arch[s].id].is_active
              /\ \A v \in Variants :
                    variantProduct[v] = arch[s].id => stock'[v] = 0 ]_vars


\* C27: when the updates of a moveItem have all returned and one of them
\* failed in the store, moveItem re-fetches the trending list (so that the
\* local list becomes the list of the store again).
C27_FailedMoveRefetches ==
    [][ \A s \in Sessions :
          (trend[s].pending # <<>> /\ trend'[s].pending = <<>> /\ trend'[s].failed) =>
              trend'[s].refetch ]_vars

\* C29: once the updates of every moveItem have returned, no two rows of
\* trending_products have the same position, whatever addToTrending,
\* removeFromTrending and moveItem did, and a moveItem of the first item
\* upward or of the last item downward changes nothing.
C29_PositionsUnique ==
    [][ /\ (\A s \in Sessions : trend'[s].pending = <<>>) =>
                \A r, q \in trending_products' : r.id # q.id => r.position # q.position
        /\ (moves' # moves /\ trend' = trend) =>
                (trending' = trending /\ trending_products' = trending_products) ]_vars


\* C26: when no save is running and no save has failed, no two variants of
\* the store, of one product or of two, have the same non-empty SKU.
C26_SkusUnique ==
    (faults = 0 /\ \A s \in Sessions : save[s].pc = "idle") =>
        \A pk, ql \in SkuProducts \X VariantKeys :
            (pk # ql /\ variant_sku[pk[1]][pk[2]] # "") =>
                variant_sku[pk[1]][pk[2]] # variant_sku[ql[1]][ql[2]]

====
